---- MODULE Spec2Model ----
(***************************************************************************)
(* Sales dashboard (dashboard_streamlit.py): reading the file under the    *)
(* list of encodings, the load_data cleaning pipeline, product             *)
(* categorisation, calculate_metrics and the grouped breakdowns of the     *)
(* tabs.                                                                   *)
(*                                                                         *)
(* Text is a sequence of one-character strings, so that strip, upper,      *)
(* lower, substring tests and the date / number parsers are computed on    *)
(* characters.  A table cell is a tagged record:                           *)
(*   [k |-> "null"]                NaN / NaT                               *)
(*   [k |-> "str",  s |-> text]    a Python str                            *)
(*   [k |-> "num",  n |-> int]     a float, in hundredths                  *)
(*   [k |-> "date", y, m, d]       a Timestamp at midnight                 *)
(***************************************************************************)
EXTENDS Integers, Sequences, FiniteSets, TLC

VARIABLES
    item,         \* argument of categorizar_producto
    categoria,    \* its return value ("unset" before the call)
    file,         \* 'VENTAS 2025.CSV': whether it exists, and its rows of byte cells
    tried,        \* the encodings passed to pd.read_csv so far, in order
    csv,          \* the decoded rows read_csv parsed (text cells), or Unset
    df,           \* module-level df: Unset, None, or the cleaned table
    pc,           \* position of the script run
    query,        \* arguments of the calculate_metrics call of this run, or Unset
    df_filtered,  \* first component of its return value
    metrics,      \* second component of its return value
    shares_base,  \* whether df_filtered shares its data with df
    view,         \* what the active tab of this run computed, or Unset
    par,          \* local state of the queries that run side by side
    session_state,  \* st.session_state: which keys are set, and their values
    widgets,      \* the date_input the last run rendered, and the value it holds
    event         \* the interaction that started the last script run

catVars  == <<item, categoria>>

loadVars == <<file, tried, csv, df>>

runVars  == <<pc, query, df_filtered, metrics, shares_base, view>>

dateVars == <<session_state, widgets, event>>

vars == <<item, categoria, file, tried, csv, df, pc, query, df_filtered,
          metrics, shares_base, view, par, session_state, widgets, event>>

(***************************************************************************)
(* Bounds                                                                  *)
(***************************************************************************)
MaxFrags == 3

MaxRawRows == 2

MaxRows == 3

(***************************************************************************)
(* Python str operations.  An ASCII character is itself; any other         *)
(* character is written as the decimal of its code point ("241" is n       *)
(* with tilde, "209" its capital, "233"/"201" e acute, "353"/"352" s       *)
(* caron, "133" NEL and "160" the no-break space, both white space).       *)
(***************************************************************************)
LowerLetters ==
    <<"a","b","c","d","e","f","g","h","i","j","k","l","m",
      "n","o","p","q","r","s","t","u","v","w","x","y","z",
      "241", "233", "353">>

UpperLetters ==
    <<"A","B","C","D","E","F","G","H","I","J","K","L","M",
      "N","O","P","Q","R","S","T","U","V","W","X","Y","Z",
      "209", "201", "352">>

lower_char(c) ==
    IF \E i \in DOMAIN UpperLetters : UpperLetters[i] = c
    THEN LowerLetters[CHOOSE i \in DOMAIN UpperLetters : UpperLetters[i] = c]
    ELSE c

upper_char(c) ==
    IF \E i \in DOMAIN LowerLetters : LowerLetters[i] = c
    THEN UpperLetters[CHOOSE i \in DOMAIN LowerLetters : LowerLetters[i] = c]
    ELSE c

lower(s) == [i \in 1..Len(s) |-> lower_char(s[i])]

upper(s) == [i \in 1..Len(s) |-> upper_char(s[i])]

\* sub in s
Contains(s, sub) ==
    \E i \in 0..(Len(s) - Len(sub)) : SubSeq(s, i + 1, i + Len(sub)) = sub

IsSpace(c) == c \in {" ", "\t", "\n", "\r", "133", "160"}

strip(s) ==
    IF \A i \in 1..Len(s) : IsSpace(s[i])
    THEN <<>>
    ELSE LET first == CHOOSE i \in 1..Len(s) :
                          /\ ~IsSpace(s[i])
                          /\ \A j \in 1..(i - 1) : IsSpace(s[j])
             last  == CHOOSE i \in 1..Len(s) :
                          /\ ~IsSpace(s[i])
                          /\ \A j \in (i + 1)..Len(s) : IsSpace(s[j])
         IN  SubSeq(s, first, last)

(***************************************************************************)
(* categorizar_producto                                                    *)
(***************************************************************************)
kw_agua     == <<"a","g","u","a">>
kw_bolsa    == <<"b","o","l","s","a">>
kw_hielo    == <<"h","i","e","l","o">>
kw_botellon == <<"b","o","t","e","l","l","o","n">>
kw_botecito == <<"b","o","t","e","c","i","t","o">>
kw_bote     == <<"b","o","t","e">>
kw_impuesto == <<"i","m","p","u","e","s","t","o">>
kw_isv      == <<"i","s","v">>

Categorias ==
    {"Agua en Bolsa", "Hielo", "Botellones", "Botecitos", "Impuestos", "Otros"}

categorizar_producto_swapped(it) ==
    LET item_lower == lower(it)
    IN  IF Contains(item_lower, kw_agua) \/ Contains(item_lower, kw_bolsa)
        THEN "Agua en Bolsa"
        ELSE IF Contains(item_lower, kw_hielo)
        THEN "Hielo"
        ELSE IF Contains(item_lower, kw_botecito) \/ Contains(item_lower, kw_bote)
        THEN "Botecitos"
        ELSE IF Contains(item_lower, kw_botellon)
        THEN "Botellones"
        ELSE IF Contains(item_lower, kw_impuesto) \/ Contains(item_lower, kw_isv)
        THEN "Impuestos"
        ELSE "Otros"

categorizar_producto(it) ==
    LET item_lower == lower(it)
    IN  IF Contains(item_lower, kw_agua) \/ Contains(item_lower, kw_bolsa)
        THEN "Agua en Bolsa"
        ELSE IF Contains(item_lower, kw_hielo)
        THEN "Hielo"
        ELSE IF Contains(item_lower, kw_botellon)
        THEN "Botellones"
        ELSE IF Contains(item_lower, kw_botecito) \/ Contains(item_lower, kw_bote)
        THEN "Botecitos"
        ELSE IF Contains(item_lower, kw_impuesto) \/ Contains(item_lower, kw_isv)
        THEN "Impuestos"
        ELSE "Otros"

(***************************************************************************)
(* Cell values, None, and the values of variables not yet assigned         *)
(***************************************************************************)
None   == [k |-> "None"]
Unset  == [k |-> "unset"]
Null   == [k |-> "null"]

\* st.session_state before the script has stored anything in it
NoSession == [ keys |-> {}, date_range_reset |-> FALSE, current_date_range |-> <<>> ]

Str(t) == [k |-> "str", s |-> t]
Num(v) == [k |-> "num", n |-> v]
Date(yy, mm, dd) == [k |-> "date", y |-> yy, m |-> mm, d |-> dd]

notna(c) == c.k # "null"

(***************************************************************************)
(* Calendar (datetime): ordinal, weekday name, ISO week                    *)
(***************************************************************************)
Digits == <<"0","1","2","3","4","5","6","7","8","9">>

IsDigit(c) == \E i \in DOMAIN Digits : Digits[i] = c

DigitVal(c) == (CHOOSE i \in DOMAIN Digits : Digits[i] = c) - 1

RECURSIVE DigitsVal(_)
DigitsVal(t) ==
    IF t = <<>> THEN 0
    ELSE 10 * DigitsVal(SubSeq(t, 1, Len(t) - 1)) + DigitVal(t[Len(t)])

AllDigits(t) == \A i \in 1..Len(t) : IsDigit(t[i])

IsLeap(yy) == (yy % 4 = 0) /\ ((yy % 100 # 0) \/ (yy % 400 = 0))

DaysInMonth(yy, mm) ==
    IF mm = 2 THEN (IF IsLeap(yy) THEN 29 ELSE 28)
    ELSE IF mm \in {4, 6, 9, 11} THEN 30 ELSE 31

DaysBeforeMonth(yy, mm) ==
    <<0, 31, 59, 90, 120, 151, 181, 212, 243, 273, 304, 334>>[mm]
        + (IF mm > 2 /\ IsLeap(yy) THEN 1 ELSE 0)

DaysBeforeYear(yy) ==
    (yy - 1) * 365 + ((yy - 1) \div 4) - ((yy - 1) \div 100) + ((yy - 1) \div 400)

\* date.toordinal()
Ordinal(yy, mm, dd) == DaysBeforeYear(yy) + DaysBeforeMonth(yy, mm) + dd

toordinal(c) == Ordinal(c.y, c.m, c.d)

\* date.fromordinal(n): the 400-, 100-, 4- and 1-year cycles before day n,
\* then the month estimated as (n + 50) >> 5 and stepped back if too far
fromordinal(n) ==
    LET n0   == n - 1
        n400 == n0 \div 146097
        r400 == n0 % 146097
        n100 == r400 \div 36524
        r100 == r400 % 36524
        n4   == r100 \div 1461
        r4   == r100 % 1461
        n1   == r4 \div 365
        r1   == r4 % 365
        yy   == n400 * 400 + 1 + n100 * 100 + n4 * 4 + n1
        est  == (r1 + 50) \div 32
        mm   == IF DaysBeforeMonth(yy, est) > r1 THEN est - 1 ELSE est
    IN  IF n1 = 4 \/ n100 = 4
        THEN [k |-> "date", y |-> yy - 1, m |-> 12, d |-> 31]
        ELSE [k |-> "date", y |-> yy, m |-> mm,
              d |-> r1 - DaysBeforeMonth(yy, mm) + 1]

DayNames ==
    <<"Monday", "Tuesday", "Wednesday", "Thursday", "Friday", "Saturday", "Sunday">>

\* Series.dt.day_name()
day_name(c) == DayNames[((toordinal(c) + 6) % 7) + 1]

Week1Monday(yy) ==
    LET firstday     == Ordinal(yy, 1, 1)
        firstweekday == (firstday + 6) % 7
    IN  IF firstweekday > 3 THEN firstday - firstweekday + 7
                            ELSE firstday - firstweekday

\* Series.dt.isocalendar().week
isoweek(c) ==
    LET today == toordinal(c)
        week  == (today - Week1Monday(c.y)) \div 7
    IN  IF today < Week1Monday(c.y)
        THEN ((today - Week1Monday(c.y - 1)) \div 7) + 1
        ELSE IF week >= 52 /\ today >= Week1Monday(c.y + 1)
        THEN 1
        ELSE week + 1

(***************************************************************************)
(* pd.to_datetime(..., format='%d/%m/%Y', errors='coerce')                 *)
(* The text must match  %d "/" %m "/" %Y  as a whole:                      *)
(*   %d  3[0-1] | [1-2]\d | 0[1-9] | [1-9] | " "[1-9]                      *)
(*   %m  1[0-2] | 0[1-9] | [1-9]                                           *)
(*   %Y  \d\d\d\d                                                          *)
(* and name a day that exists; anything else is NaT.                       *)
(***************************************************************************)
SlashAt(t) == {i \in 1..Len(t) : t[i] = "/"}

Min(S) == CHOOSE x \in S : \A z \in S : x <= z

Max(S) == CHOOSE x \in S : \A z \in S : x >= z

\* 0 when the text is not a %d field
DayField(t) ==
    IF Len(t) = 1 /\ IsDigit(t[1]) THEN DigitVal(t[1])
    ELSE IF Len(t) = 2 /\ t[1] = " " /\ IsDigit(t[2]) THEN DigitVal(t[2])
    ELSE IF Len(t) = 2 /\ AllDigits(t) /\ DigitsVal(t) <= 31 THEN DigitsVal(t)
    ELSE 0

\* 0 when the text is not a %m field
MonthField(t) ==
    IF Len(t) = 1 /\ IsDigit(t[1]) THEN DigitVal(t[1])
    ELSE IF Len(t) = 2 /\ AllDigits(t) /\ DigitsVal(t) <= 12 THEN DigitsVal(t)
    ELSE 0

\* -1 when the text is not a %Y field
YearField(t) == IF Len(t) = 4 /\ AllDigits(t) THEN DigitsVal(t) ELSE -1

strptime_dmy(t) ==
    IF Cardinality(SlashAt(t)) # 2 THEN Null
    ELSE LET i1 == Min(SlashAt(t))
             i2 == Max(SlashAt(t))
             dd == DayField(SubSeq(t, 1, i1 - 1))
             mm == MonthField(SubSeq(t, i1 + 1, i2 - 1))
             yy == YearField(SubSeq(t, i2 + 1, Len(t)))
         IN  IF dd >= 1 /\ mm >= 1 /\ yy >= 1 /\ dd <= DaysInMonth(yy, mm)
             THEN Date(yy, mm, dd)
             ELSE Null

\* one element of the Series: a Timestamp is kept, text is parsed, a number
\* is formatted as text and so never matches the format
to_datetime(c) ==
    IF c.k = "date" THEN c
    ELSE IF c.k = "str" THEN strptime_dmy(c.s)
    ELSE Null

(***************************************************************************)
(* Numbers as text: [+-] digits [ "." digits ]  or  [+-] "." digits.       *)
(* Values are kept in hundredths (the export carries two decimals);        *)
(* exponents, "inf" and surrounding blanks are outside the inputs drawn.   *)
(***************************************************************************)
Unsigned(t) == IF Len(t) > 0 /\ t[1] \in {"-", "+"} THEN Tail(t) ELSE t

DotAt(t) == {i \in 1..Len(t) : t[i] = "."}

IsNumberText(t) ==
    LET u == Unsigned(t)
    IN  \/ Len(u) > 0 /\ AllDigits(u)
        \/ /\ Cardinality(DotAt(u)) = 1
           /\ Len(u) > 1
           /\ \A i \in 1..Len(u) : i \in DotAt(u) \/ IsDigit(u[i])

NumberVal(t) ==
    LET u     == Unsigned(t)
        dot   == IF DotAt(u) = {} THEN Len(u) + 1 ELSE Min(DotAt(u))
        whole == DigitsVal(SubSeq(u, 1, dot - 1))
        frac  == SubSeq(u, dot + 1, Len(u)) \o <<"0", "0">>
        v     == 100 * whole + DigitsVal(SubSeq(frac, 1, 2))
    IN  IF Len(t) > 0 /\ t[1] = "-" THEN 0 - v ELSE v

\* pd.to_numeric(..., errors='coerce'), one element
to_numeric(c) ==
    IF c.k = "num" THEN c
    ELSE IF c.k = "str" /\ IsNumberText(c.s) THEN Num(NumberVal(c.s))
    ELSE Null

(***************************************************************************)
(* pd.read_csv: the table of the decoded file.  A table is                 *)
(*   [rows |-> sequence of records, object_cols |-> columns of dtype       *)
(*    object]                                                              *)
(* A cell whose text is one of the default NA markers is NaN.  A column    *)
(* whose remaining cells all read as numbers is numeric (so is a column    *)
(* with no cell left); any other column keeps its cells as str.  A file    *)
(* with a header and no rows has only object columns.                      *)
(***************************************************************************)
Columns ==
    {"Type", "Name", "Item", "Date", "Qty", "SalesPrice", "Amount", "Balance"}

NaValues ==
    { <<>>,
      <<"#","N","/","A">>,
      <<"#","N","/","A"," ","N","/","A">>,
      <<"#","N","A">>,
      <<"-","1",".","#","I","N","D">>,
      <<"-","1",".","#","Q","N","A","N">>,
      <<"-","N","a","N">>,
      <<"-","n","a","n">>,
      <<"1",".","#","I","N","D">>,
      <<"1",".","#","Q","N","A","N">>,
      <<"<","N","A",">">>,
      <<"N","/","A">>,
      <<"N","A">>,
      <<"N","U","L","L">>,
      <<"N","a","N">>,
      <<"N","o","n","e">>,
      <<"n","/","a">>,
      <<"n","a","n">>,
      <<"n","u","l","l">> }

IsNA(t) == t \in NaValues

is_object_col(rows, c) ==
    \/ Len(rows) = 0
    \/ \E i \in 1..Len(rows) : ~IsNA(rows[i][c]) /\ ~IsNumberText(rows[i][c])

read_cell(rows, i, c) ==
    IF IsNA(rows[i][c]) THEN Null
    ELSE IF is_object_col(rows, c) THEN Str(rows[i][c])
    ELSE Num(NumberVal(rows[i][c]))

read_csv(rows) ==
    [ rows |-> [i \in 1..Len(rows) |->
                  [ index      |-> i - 1,
                    Type       |-> read_cell(rows, i, "Type"),
                    Name       |-> read_cell(rows, i, "Name"),
                    Item       |-> read_cell(rows, i, "Item"),
                    Date       |-> read_cell(rows, i, "Date"),
                    Qty        |-> read_cell(rows, i, "Qty"),
                    SalesPrice |-> read_cell(rows, i, "SalesPrice"),
                    Amount     |-> read_cell(rows, i, "Amount"),
                    Balance    |-> read_cell(rows, i, "Balance") ]],
      object_cols |-> {c \in Columns : is_object_col(rows, c)} ]

(***************************************************************************)
(* load_data, lines 43-90, step by step                                    *)
(***************************************************************************)
kw_Total == <<"T","o","t","a","l">>

\* Series.str.contains(pat, na=False), one element
str_contains(c, pat) == c.k = "str" /\ Contains(c.s, pat)

\* the boolean mask of lines 43-49
keep_mask_no_total(r) ==
    /\ notna(r.Type)
    /\ notna(r.Name)
    /\ notna(r.Item)
    /\ notna(r.Amount)

keep_mask(r) ==
    /\ notna(r.Type)
    /\ ~str_contains(r.Type, kw_Total)
    /\ notna(r.Name)
    /\ notna(r.Item)
    /\ notna(r.Amount)

\* Series.str.strip() / .str.upper(), one element: a non-str element is NaN
str_strip(c) == IF c.k = "str" THEN Str(strip(c.s)) ELSE Null

str_upper(c) == IF c.k = "str" THEN Str(upper(c.s)) ELSE Null

clean_name_strip_only(c) == str_strip(c)

\* line 59
clean_name(c) == str_upper(str_strip(c))

\* lines 52-60
convert_row(r) ==
    [ r EXCEPT !.Date       = to_datetime(r.Date),
               !.Qty        = to_numeric(r.Qty),
               !.SalesPrice = to_numeric(r.SalesPrice),
               !.Amount     = to_numeric(r.Amount),
               !.Balance    = to_numeric(r.Balance),
               !.Name       = clean_name(r.Name),
               !.Item       = str_strip(r.Item) ]

\* line 63
dropna_keep_no_date(r) == notna(r.Amount) /\ notna(r.Name)

dropna_keep(r) == notna(r.Date) /\ notna(r.Amount) /\ notna(r.Name)

\* str(item), line 74
py_str(c) == IF c.k = "str" THEN c.s ELSE <<"n","a","n">>

\* lines 66-88
add_derived(r) ==
    [ index      |-> r.index,
      Type       |-> r.Type,
      Name       |-> r.Name,
      Item       |-> r.Item,
      Date       |-> r.Date,
      Qty        |-> r.Qty,
      SalesPrice |-> r.SalesPrice,
      Amount     |-> r.Amount,
      Balance    |-> r.Balance,
      Year       |-> IF notna(r.Date) THEN r.Date.y ELSE Null,
      Month      |-> IF notna(r.Date) THEN r.Date.m ELSE Null,
      Day        |-> IF notna(r.Date) THEN r.Date.d ELSE Null,
      Weekday    |-> IF notna(r.Date) THEN day_name(r.Date) ELSE Null,
      Week       |-> IF notna(r.Date) THEN isoweek(r.Date) ELSE Null,
      Categoria  |-> categorizar_producto(py_str(r.Item)) ]

\* the .str accessor raises AttributeError on a column that is not of
\* dtype object (lines 45, 59, 60); the except clause of line 92 catches it
str_accessor_raises(t) ==
    \/ "Type" \notin t.object_cols
    \/ "Name" \notin t.object_cols
    \/ "Item" \notin t.object_cols

\* lines 43-90 applied to a table; None when an exception reaches line 92
clean_table(t) ==
    IF str_accessor_raises(t) THEN None
    ELSE LET filtered  == SelectSeq(t.rows, keep_mask)
             converted == [i \in 1..Len(filtered) |-> convert_row(filtered[i])]
             kept      == SelectSeq(converted, dropna_keep)
         IN  [ rows        |-> [i \in 1..Len(kept) |-> add_derived(kept[i])],
               object_cols |-> (t.object_cols
                                  \ {"Date", "Qty", "SalesPrice", "Amount", "Balance"})
                               \cup {"Weekday", "Categoria"} ]

\* lines 43-94, from the rows of the parse that succeeded
load_data(rows) == clean_table(read_csv(rows))

IsTable(t) == t # None /\ t # Unset

(***************************************************************************)
(* Reading the file, lines 26-40: the bytes of 'VENTAS 2025.CSV' are       *)
(* decoded under each encoding of the list in turn.  A byte is an integer  *)
(* of 0..255, a cell of the file a sequence of bytes.                      *)
(***************************************************************************)
\* the characters of code points 32..126 (the grave accent, which a TLA+
\* string cannot hold, as "96")
AsciiChars ==
    <<
      " ","!","\"","#","$","%","&","'","(",")","*","+",",","-",".","/",
      "0","1","2","3","4","5","6","7","8","9",":",";","<","=",">","?",
      "@","A","B","C","D","E","F","G","H","I","J","K","L","M","N","O",
      "P","Q","R","S","T","U","V","W","X","Y","Z","[","\\","]","^","_",
      "96","a","b","c","d","e","f","g","h","i","j","k","l","m","n","o",
      "p","q","r","s","t","u","v","w","x","y","z","{","|","}","~" >>

\* chr(cp); the other control characters are written as the decimal of
\* cp - 128, which no other character is written as
CharOf(cp) ==
    IF cp \in 32..126 THEN AsciiChars[cp - 31]
    ELSE IF cp = 9 THEN "\t"
    ELSE IF cp = 10 THEN "\n"
    ELSE IF cp = 13 THEN "\r"
    ELSE IF cp < 128 THEN ToString(cp - 128)
    ELSE ToString(cp)

\* code points of the bytes 0x80..0x9F in cp1252; 0 marks the five bytes
\* the codec leaves undefined (0x81, 0x8D, 0x8F, 0x90, 0x9D)
Cp1252High ==
    << 8364, 0, 8218, 402, 8222, 8230, 8224, 8225,
       710, 8240, 352, 8249, 338, 0, 381, 0,
       0, 8216, 8217, 8220, 8221, 8226, 8211, 8212,
       732, 8482, 353, 8250, 339, 0, 382, 376 >>

\* the code points the one-byte decoders can produce
CodePoints == (0..255) \cup {Cp1252High[i] : i \in DOMAIN Cp1252High}

\* ord(c)
CodeOf(c) ==
    IF \E i \in DOMAIN AsciiChars : AsciiChars[i] = c
    THEN 31 + (CHOOSE i \in DOMAIN AsciiChars : AsciiChars[i] = c)
    ELSE CHOOSE cp \in CodePoints : CharOf(cp) = c

\* the result of a decoder: the text, or a UnicodeDecodeError
Decoded(text) == [ok |-> TRUE, text |-> text]

UnicodeDecodeError == [ok |-> FALSE, text |-> <<>>]

\* number of bytes of the UTF-8 sequence a lead byte announces, 0 for a
\* byte that cannot lead
utf8_len(b1) ==
    IF b1 < 128 THEN 1
    ELSE IF b1 \in 194..223 THEN 2
    ELSE IF b1 \in 224..239 THEN 3
    ELSE IF b1 \in 240..244 THEN 4
    ELSE 0

\* strict UTF-8, for the sequence that starts at byte i: continuation
\* bytes in 0x80..0xBF, no overlong form, no surrogate, nothing above
\* U+10FFFF
utf8_valid(b, i, n) ==
    /\ n > 0
    /\ Len(b) >= i + n - 1
    /\ \A j \in 1..(n - 1) : b[i + j] \in 128..191
    /\ b[i] = 224 => b[i + 1] >= 160
    /\ b[i] = 237 => b[i + 1] <= 159
    /\ b[i] = 240 => b[i + 1] >= 144
    /\ b[i] = 244 => b[i + 1] <= 143

utf8_codepoint(b, i, n) ==
    IF n = 1 THEN b[i]
    ELSE IF n = 2 THEN (b[i] - 192) * 64 + (b[i + 1] - 128)
    ELSE IF n = 3 THEN (b[i] - 224) * 4096 + (b[i + 1] - 128) * 64
                       + (b[i + 2] - 128)
    ELSE (b[i] - 240) * 262144 + (b[i + 1] - 128) * 4096
         + (b[i + 2] - 128) * 64 + (b[i + 3] - 128)

\* the text of the bytes from position i on
RECURSIVE utf8_from(_, _)
utf8_from(b, i) ==
    IF i > Len(b) THEN Decoded(<<>>)
    ELSE LET n == utf8_len(b[i])
         IN  IF ~utf8_valid(b, i, n) THEN UnicodeDecodeError
             ELSE LET rest == utf8_from(b, i + n)
                  IN  IF ~rest.ok THEN UnicodeDecodeError
                      ELSE Decoded(<<CharOf(utf8_codepoint(b, i, n))>> \o rest.text)

\* ASCII bytes are one-byte sequences, each its own code point
utf8_decode(b) ==
    IF \A i \in 1..Len(b) : b[i] < 128
    THEN Decoded(<<>> \o [i \in 1..Len(b) |-> CharOf(b[i])])
    ELSE utf8_from(b, 1)

\* latin-1 and its alias iso-8859-1: byte n is code point n, for every byte
latin1_decode(b) == Decoded(<<>> \o [i \in 1..Len(b) |-> CharOf(b[i])])

cp1252_codepoint(byte) ==
    IF byte \in 128..159 THEN Cp1252High[byte - 127] ELSE byte

cp1252_decode(b) ==
    IF \E i \in 1..Len(b) : cp1252_codepoint(b[i]) = 0
    THEN UnicodeDecodeError
    ELSE Decoded(<<>> \o [i \in 1..Len(b) |-> CharOf(cp1252_codepoint(b[i]))])

\* bytes.decode(encoding)
decode(b, encoding) ==
    IF encoding = "utf-8" THEN utf8_decode(b)
    ELSE IF encoding = "cp1252" THEN cp1252_decode(b)
    ELSE latin1_decode(b)

\* line 28
encodings == <<"utf-8", "latin-1", "iso-8859-1", "cp1252">>

\* pd.read_csv(path, encoding=encoding) decodes the whole file: it raises
\* UnicodeDecodeError when any cell does not decode
decodes(rows, encoding) ==
    \A i \in 1..Len(rows) : \A c \in Columns : decode(rows[i][c], encoding).ok

decode_row(r, encoding) ==
    [ Type       |-> decode(r.Type, encoding).text,
      Name       |-> decode(r.Name, encoding).text,
      Item       |-> decode(r.Item, encoding).text,
      Date       |-> decode(r.Date, encoding).text,
      Qty        |-> decode(r.Qty, encoding).text,
      SalesPrice |-> decode(r.SalesPrice, encoding).text,
      Amount     |-> decode(r.Amount, encoding).text,
      Balance    |-> decode(r.Balance, encoding).text ]

decode_rows(rows, encoding) ==
    <<>> \o [i \in 1..Len(rows) |-> decode_row(rows[i], encoding)]

\* df after line 30, and after the assignment of line 33
NoParse == [ok |-> FALSE, rows |-> <<>>]

\* the cells of a row, each decoded
decode_cells(r, encoding) ==
    [ Type       |-> decode(r.Type, encoding),
      Name       |-> decode(r.Name, encoding),
      Item       |-> decode(r.Item, encoding),
      Date       |-> decode(r.Date, encoding),
      Qty        |-> decode(r.Qty, encoding),
      SalesPrice |-> decode(r.SalesPrice, encoding),
      Amount     |-> decode(r.Amount, encoding),
      Balance    |-> decode(r.Balance, encoding) ]

\* read_csv under one encoding: the parse, or NoParse for a
\* UnicodeDecodeError in any cell
read_with(rows, encoding) ==
    LET cells == <<>> \o [i \in 1..Len(rows) |-> decode_cells(rows[i], encoding)]
    IN  IF \E i \in 1..Len(rows) : \E c \in Columns : ~cells[i][c].ok
        THEN NoParse
        ELSE [ok   |-> TRUE,
              rows |-> [i \in 1..Len(rows) |->
                          [c \in Columns |-> cells[i][c].text]]]

\* lines 31-36 without the break of line 34: every encoding is tried and
\* the last one that decodes is kept
RECURSIVE try_encodings_no_break(_, _, _, _)
try_encodings_no_break(rows, i, attempted, found) ==
    IF i > Len(encodings) THEN [tried |-> attempted, parse |-> found]
    ELSE LET r == read_with(rows, encodings[i])
         IN  try_encodings_no_break(rows, i + 1, Append(attempted, encodings[i]),
                                    IF r.ok THEN r ELSE found)

\* lines 31-36: the loop over the encodings from position i on; found is
\* df (None until a parse succeeds), attempted the encodings used so far
RECURSIVE try_encodings(_, _, _, _)
try_encodings(rows, i, attempted, found) ==
    IF i > Len(encodings) THEN [tried |-> attempted, parse |-> found]
    ELSE LET r == read_with(rows, encodings[i])
         IN  IF r.ok
             THEN [tried |-> Append(attempted, encodings[i]), parse |-> r]
             ELSE try_encodings(rows, i + 1, Append(attempted, encodings[i]), found)

\* lines 92-94: any exception is reported and the loader returns an empty
\* table instead of None
except_return_empty(e) == [rows |-> <<>>, object_cols |-> Columns]

\* lines 92-94: any exception is reported and the loader returns None
except_return(e) == None

\* lines 24-94.  A missing file makes the first read_csv raise
\* FileNotFoundError, which line 35 does not catch; no parse at all raises
\* the ValueError of line 39.
load_data_file(f) ==
    IF ~f.exists
    THEN [tried |-> <<encodings[1]>>, csv |-> Unset,
          df |-> except_return("FileNotFoundError")]
    ELSE LET r == try_encodings(f.rows, 1, <<>>, NoParse)
         IN  IF ~r.parse.ok
             THEN [tried |-> r.tried, csv |-> Unset,
                   df |-> except_return("ValueError")]
             ELSE [tried |-> r.tried, csv |-> r.parse.rows,
                   df |-> load_data(r.parse.rows)]

\* str.encode('utf-8') of ASCII text
encode_ascii(text) == [i \in 1..Len(text) |-> CodeOf(text[i])]

\* a row of ASCII text as the file holds it
encode_row(r) == [c \in Columns |-> encode_ascii(r[c])]

\* a file holding the given rows of bytes
FileOf(rows) == [exists |-> TRUE, rows |-> rows]

(***************************************************************************)
(* Inputs of the cleaning: files of up to MaxRawRows rows, each a          *)
(* well-formed sale with at most one field replaced, or a summary row.     *)
(***************************************************************************)
CsvRow(ty, nm, it, dt, qt, sp, am, bl) ==
    [ Type |-> ty, Name |-> nm, Item |-> it, Date |-> dt,
      Qty |-> qt, SalesPrice |-> sp, Amount |-> am, Balance |-> bl ]

BaseRow ==
    CsvRow(<<"S","a","l","e","s"," ","R","e","c","e","i","p","t">>, <<" ","a","n","a"," ">>, <<"A","g","u","a">>, <<"0","1","/","0","1","/","2","0","2","5">>,
           <<"1">>, <<"1","0","0">>, <<"1","0","0">>, <<"0">>)

TypeTexts ==
    { <<"I","n","v","o","i","c","e">>,
      <<"T","o","t","a","l"," ","S","a","l","e","s">>,
      <<"t","o","t","a","l"," ","s","a","l","e","s">>,
      <<>> }

NameTexts ==
    { <<"B","o">>,
      <<>>,
      <<"1","2">> }

ItemTexts ==
    { <<" ","H","i","e","l","o"," ">>,
      <<>>,
      <<"7">> }

DateTexts ==
    { <<"3","1","/","0","2","/","2","0","2","5">>,
      <<"a","b","c">>,
      <<>>,
      <<"1","/","2","/","2","0","2","5">>,
      <<"0","2","/","0","1","/","2","5">>,
      <<"2","9","/","0","2","/","2","0","2","4">> }

AmountTexts ==
    { <<"1","2",".","5">>,
      <<"-","5","0",".","5">>,
      <<"x","1">>,
      <<>>,
      <<"1",",","2","0","0">> }

CleanPool ==
    {BaseRow}
    \cup {[BaseRow EXCEPT !.Type = v] : v \in TypeTexts}
    \cup {[BaseRow EXCEPT !.Name = v] : v \in NameTexts}
    \cup {[BaseRow EXCEPT !.Item = v] : v \in ItemTexts}
    \cup {[BaseRow EXCEPT !.Date = v] : v \in DateTexts}
    \cup {[BaseRow EXCEPT !.Amount = v] : v \in AmountTexts}
    \cup {[BaseRow EXCEPT !.Qty = <<"x","1">>],
          [BaseRow EXCEPT !.SalesPrice = <<>>],
          [BaseRow EXCEPT !.Balance = <<"N","/","A">>],
          [BaseRow EXCEPT !.Qty = <<"x","1">>, !.SalesPrice = <<"a","b","c">>, !.Balance = <<>>]}
    \cup {CsvRow(<<"T","o","t","a","l"," ","S","a","l","e","s">>, <<>>, <<>>, <<"a","b","c">>, <<>>, <<>>, <<"x","1">>, <<>>)}

CleanPoolBytes == {encode_row(r) : r \in CleanPool}

RECURSIVE TablesUpTo(_, _)
TablesUpTo(pool, n) ==
    IF n = 0 THEN {<<>>}
    ELSE TablesUpTo(pool, n - 1) \cup
         {Append(t, r) : t \in TablesUpTo(pool, n - 1), r \in pool}

(***************************************************************************)
(* calculate_metrics, lines 97-136                                         *)
(***************************************************************************)
\* lines 104-107
in_range_exclusive_end(r, start_date, end_date) ==
    /\ toordinal(r.Date) >= toordinal(start_date)
    /\ toordinal(r.Date) < toordinal(end_date)

in_range(r, start_date, end_date) ==
    /\ toordinal(r.Date) >= toordinal(start_date)
    /\ toordinal(r.Date) <= toordinal(end_date)

filter_date(rows, start_date, end_date) ==
    LET keep(r) == in_range(r, start_date, end_date) IN SelectSeq(rows, keep)

\* truth value of the tipo_venta argument: None and '' are false
tipo_given(tipo_venta) == tipo_venta # None /\ tipo_venta.s # <<>>

\* lines 110-111 left out
filter_tipo_ignored(rows, tipo_venta) == rows

\* lines 110-111
filter_tipo(rows, tipo_venta) ==
    IF tipo_given(tipo_venta)
    THEN LET keep(r) == r.Type = tipo_venta IN SelectSeq(rows, keep)
    ELSE rows

\* lines 114-115
filter_clients(rows, selected_clients) ==
    IF selected_clients # {}
    THEN LET keep(r) == r.Name.k = "str" /\ r.Name.s \in selected_clients
         IN  SelectSeq(rows, keep)
    ELSE rows

\* lines 118-119
filter_categories(rows, selected_categories) ==
    IF selected_categories # {}
    THEN LET keep(r) == r.Categoria \in selected_categories
         IN  SelectSeq(rows, keep)
    ELSE rows

\* Series.sum() of Amount
RECURSIVE series_sum_skip_first(_)
series_sum_skip_first(rows) ==
    IF Len(rows) <= 1 THEN 0
    ELSE rows[2].Amount.n + series_sum_skip_first(Tail(rows))

RECURSIVE series_sum(_)
series_sum(rows) ==
    IF rows = <<>> THEN 0
    ELSE (IF rows[1].Amount.k = "num" THEN rows[1].Amount.n ELSE 0)
         + series_sum(Tail(rows))

RECURSIVE GCD(_, _)
GCD(a, b) == IF b = 0 THEN a ELSE GCD(b, a % b)

Abs(a) == IF a < 0 THEN 0 - a ELSE a

\* an exact quotient n / d, d > 0, in lowest terms
Ratio(n, d) ==
    LET g == GCD(Abs(n), d) IN [num |-> n \div g, den |-> d \div g]

Zero == [num |-> 0, den |-> 1]

NaN == [k |-> "nan"]

\* Series.nunique() of a column
nunique(rows, c) == Cardinality({rows[i][c] : i \in 1..Len(rows)} \ {Null})

\* Series.mean() of Amount: NaN on an empty Series
series_mean_per_day(rows) ==
    IF Len(rows) = 0 THEN NaN
    ELSE Ratio(series_sum(rows), nunique(rows, "Date"))

series_mean(rows) ==
    IF Len(rows) = 0 THEN NaN
    ELSE Ratio(series_sum(rows), Len(rows))

\* line 125
ticket_promedio_unguarded(rows) == series_mean(rows)

ticket_promedio(rows) == IF Len(rows) > 0 THEN series_mean(rows) ELSE Zero

\* df_filtered[df_filtered['Type'] == ...], lines 130-133
rows_of_type_other(rows, ty) ==
    LET keep(r) == r.Type # Str(ty) IN SelectSeq(rows, keep)

rows_of_type(rows, ty) ==
    LET keep(r) == r.Type = Str(ty) IN SelectSeq(rows, keep)

ty_SalesReceipt == <<"S","a","l","e","s"," ","R","e","c","e","i","p","t">>

ty_Invoice == <<"I","n","v","o","i","c","e">>

\* the pair (df_filtered, metrics) as a record
\* lines 122-134
metrics_of(rows) ==
    [ total_ventas          |-> series_sum(rows),
      total_transacciones   |-> Len(rows),
      ticket_promedio       |-> ticket_promedio(rows),
      clientes_unicos       |-> nunique(rows, "Name"),
      productos_unicos      |-> nunique(rows, "Item"),
      dias_con_ventas       |-> nunique(rows, "Date"),
      venta_contado         |-> series_sum(rows_of_type(rows, ty_SalesReceipt)),
      venta_credito         |-> series_sum(rows_of_type(rows, ty_Invoice)),
      transacciones_contado |-> Len(rows_of_type(rows, ty_SalesReceipt)),
      transacciones_credito |-> Len(rows_of_type(rows, ty_Invoice)) ]

calculate_metrics(t, start_date, end_date, selected_clients, selected_categories, tipo_venta) ==
    LET s1 == filter_date(t.rows, to_datetime(start_date), to_datetime(end_date))
        s2 == filter_tipo(s1, tipo_venta)
        s3 == filter_clients(s2, selected_clients)
        s4 == filter_categories(s3, selected_categories)
    IN  [ df_filtered |-> [rows |-> s4, object_cols |-> t.object_cols],
          metrics     |-> metrics_of(s4) ]

(***************************************************************************)
(* The grouped breakdowns of the tabs, lines 481-815.  A breakdown is a    *)
(* sequence of rows, one per group; columns that are only formatted for    *)
(* display (means, rounded copies) are not carried.                        *)
(***************************************************************************)
\* str < str, by code point
text_less(a, b) ==
    \E i \in 1..(Min({Len(a), Len(b)}) + 1) :
        /\ SubSeq(a, 1, i - 1) = SubSeq(b, 1, i - 1)
        /\ \/ i > Len(a) /\ i <= Len(b)
           \/ i <= Len(a) /\ i <= Len(b) /\ CodeOf(a[i]) < CodeOf(b[i])

\* the weekday names and the category labels in str order
DayNamesSorted ==
    <<"Friday", "Monday", "Saturday", "Sunday", "Thursday", "Tuesday", "Wednesday">>

CategoriasSorted ==
    <<"Agua en Bolsa", "Botecitos", "Botellones", "Hielo", "Impuestos", "Otros">>

IndexIn(sq, x) == CHOOSE i \in DOMAIN sq : sq[i] = x

\* the value a record is grouped under
key_of(r, by) == IF by \in {"Item", "Name"} THEN r[by].s ELSE r[by]

\* the order groupby sorts its keys in
key_less(by, a, b) ==
    IF by \in {"Item", "Name"} THEN text_less(a, b)
    ELSE IF by = "Date" THEN toordinal(a) < toordinal(b)
    ELSE IF by = "Weekday" THEN IndexIn(DayNamesSorted, a) < IndexIn(DayNamesSorted, b)
    ELSE IndexIn(CategoriasSorted, a) < IndexIn(CategoriasSorted, b)

RECURSIVE sort_keys(_, _)
sort_keys(keys, by) ==
    IF keys = {} THEN <<>>
    ELSE LET m == CHOOSE k \in keys :
                      \A j \in keys \ {k} : key_less(by, k, j)
         IN  <<m>> \o sort_keys(keys \ {m}, by)

\* only the first record of the group
group_rows_first(rows, by, k) ==
    LET in_group(r) == key_of(r, by) = k
    IN  SubSeq(SelectSeq(rows, in_group), 1, 1)

\* the records of the group of key k
group_rows(rows, by, k) ==
    LET in_group(r) == key_of(r, by) = k
    IN  SelectSeq(rows, in_group)

\* Series.sum() of Qty, NaN skipped
RECURSIVE qty_sum(_)
qty_sum(rows) ==
    IF rows = <<>> THEN 0
    ELSE (IF rows[1].Qty.k = "num" THEN rows[1].Qty.n ELSE 0) + qty_sum(Tail(rows))

\* df.groupby(by).agg(...).reset_index(): per key, in key order, the sum of
\* Amount, the sum of Qty and the count of Amount
groupby_agg(rows, by) ==
    LET keys == sort_keys({key_of(rows[i], by) : i \in 1..Len(rows)}, by)
    IN  [ i \in 1..Len(keys) |->
            LET g == group_rows(rows, by, keys[i])
            IN  [ key    |-> keys[i],
                  Amount |-> series_sum(g),
                  Qty    |-> qty_sum(g),
                  count  |-> Len(g) ] ]

\* line 503
dias_orden ==
    <<"Monday", "Tuesday", "Wednesday", "Thursday", "Friday", "Saturday", "Sunday">>

\* lines 506-507: the Weekday column made an ordered Categorical over
\* dias_orden, and the rows sorted by it (the keys are distinct)
RECURSIVE sort_by_categorical(_, _)
sort_by_categorical(groups, categories) ==
    IF categories = <<>> THEN <<>>
    ELSE LET is_first(g) == g.key = categories[1]
         IN  SelectSeq(groups, is_first)
             \o sort_by_categorical(groups, Tail(categories))

\* lines 559-563: per weekday of dias_orden, the sums by day of the month;
\* a weekday without records is a row of NaN (present FALSE)
heatmap_pivot(rows) ==
    LET cols == {rows[i].Day : i \in 1..Len(rows)}
    IN  [ i \in 1..Len(dias_orden) |->
            LET on_day(r) == r.Weekday = dias_orden[i]
                g == SelectSeq(rows, on_day)
            IN  [ key     |-> dias_orden[i],
                  present |-> Len(g) > 0,
                  values  |-> [c \in cols |->
                                 LET in_col(r) == r.Day = c
                                 IN  series_sum(SelectSeq(g, in_col))] ] ]

\* line 559: df_filtered['Day_of_Month'] = df_filtered['Date'].dt.day
set_day_of_month(t) ==
    [ rows |-> [i \in 1..Len(t.rows) |->
                   [c \in DOMAIN t.rows[i] \cup {"Day_of_Month"} |->
                      IF c = "Day_of_Month" THEN t.rows[i].Date.d
                      ELSE t.rows[i][c]]],
      object_cols |-> t.object_cols ]

\* df[mask] hands out a view of df when the mask keeps every row
shares_data_when_all_kept(base, filtered) ==
    Len(filtered.rows) = Len(base.rows)

\* lines 104-119: df[mask] with a boolean mask builds a new frame, whatever
\* the mask, so df_filtered never shares its data with df
shares_data(base, filtered) == FALSE

\* the smallest value first
RECURSIVE orders_by_amount_ascending(_, _)
orders_by_amount_ascending(groups, left) ==
    IF left = {} THEN {<<>>}
    ELSE UNION { {<<groups[i]>> \o t :
                     t \in orders_by_amount_ascending(groups, left \ {i})} :
                 i \in {i \in left :
                           \A j \in left : groups[i].Amount <= groups[j].Amount} }

\* sort_values('Amount', ascending=False): the default sort is not stable,
\* so groups of equal Amount come in any order
RECURSIVE orders_by_amount(_, _)
orders_by_amount(groups, left) ==
    IF left = {} THEN {<<>>}
    ELSE UNION { {<<groups[i]>> \o t :
                     t \in orders_by_amount(groups, left \ {i})} :
                 i \in {i \in left :
                           \A j \in left : groups[i].Amount >= groups[j].Amount} }

\* .head(n)
head(sq, n) == SubSeq(sq, 1, Min({n, Len(sq)}))

\* nlargest(n, ...), keep='first': by Amount descending, groups of equal
\* Amount in the order they have in the frame
RECURSIVE nlargest(_, _)
nlargest(groups, n) ==
    IF n = 0 \/ groups = <<>> THEN <<>>
    ELSE LET m == CHOOSE i \in 1..Len(groups) :
                      /\ \A j \in 1..Len(groups) : groups[i].Amount >= groups[j].Amount
                      /\ \A j \in 1..(i - 1) : groups[j].Amount < groups[i].Amount
             rest == [j \in 1..(Len(groups) - 1) |->
                         IF j < m THEN groups[j] ELSE groups[j + 1]]
         IN  <<groups[m]>> \o nlargest(rest, n - 1)

\* lines 442-476
Tabs == {"Tendencias", "Productos", "Clientes", "Categorias", "Dashboard"}

\* lines 578 and 653: the least, the default and the greatest value of the
\* two sliders, and one above the least
slider_min == 5

slider_max == 20

num_productos_default == 10

num_clientes_default == 15

SliderValues ==
    {slider_min, slider_min + 1, num_productos_default,
     num_clientes_default, slider_max}

\* line 781
top_5 == 5

\* what the active tab computes from df_filtered; n is the slider's value,
\* top the order sort_values gave the products
tab_view(tab, rows, n, top) ==
    IF tab = "Tendencias"
    THEN [ tab            |-> tab,
           ventas_diarias |-> groupby_agg(rows, "Date"),
           ventas_weekday |-> sort_by_categorical(groupby_agg(rows, "Weekday"),
                                                  dias_orden),
           heatmap_pivot  |-> heatmap_pivot(rows) ]
    ELSE IF tab = "Productos"
    THEN [ tab                    |-> tab,
           num_productos          |-> n,
           top_productos_ingresos |-> head(top, n),
           productos_detalle      |-> groupby_agg(rows, "Item") ]
    ELSE IF tab = "Clientes"
    THEN [ tab                |-> tab,
           num_clientes       |-> n,
           clientes_metricas  |-> groupby_agg(rows, "Name"),
           top_clientes_valor |-> nlargest(groupby_agg(rows, "Name"), n) ]
    ELSE IF tab = "Categorias"
    THEN [ tab              |-> tab,
           ventas_categoria |-> groupby_agg(rows, "Categoria") ]
    ELSE [ tab              |-> tab,
           ventas_diarias   |-> groupby_agg(rows, "Date"),
           top_5_productos  |-> nlargest(groupby_agg(rows, "Item"), top_5),
           ventas_weekday   |-> groupby_agg(rows, "Weekday"),
           ventas_categoria |-> groupby_agg(rows, "Categoria") ]

(***************************************************************************)
(* The script: load_data (line 139), then one calculate_metrics call per   *)
(* run (line 304) with the sidebar's filter values, then the next run.     *)
(***************************************************************************)
SalesPool ==
    { CsvRow(<<"S","a","l","e","s"," ","R","e","c","e","i","p","t">>, <<" ","a","n","a"," ">>, <<"A","g","u","a">>, <<"0","1","/","0","1","/","2","0","2","5">>, <<"1">>, <<"1","0","0">>, <<"1","0","0">>, <<"0">>),
      CsvRow(<<"I","n","v","o","i","c","e">>, <<"B","o">>, <<" ","H","i","e","l","o"," ">>, <<"0","2","/","0","1","/","2","0","2","5">>, <<"1">>, <<"2","0","0">>, <<"2","0","0">>, <<"0">>),
      CsvRow(<<"S","a","l","e","s"," ","R","e","c","e","i","p","t">>, <<" ","a","n","a"," ">>, <<"B","o","t","e","l","l","o","n">>, <<"0","3","/","0","1","/","2","0","2","5">>, <<"1">>, <<"3","0","0">>, <<"3","0","0">>, <<"0">>),
      CsvRow(<<"C","r","e","d","i","t"," ","M","e","m","o">>, <<"B","o">>, <<"A","g","u","a">>, <<"0","2","/","0","1","/","2","0","2","5">>, <<"1">>, <<"-","5","0",".","5">>, <<"-","5","0",".","5">>, <<"0">>),
      CsvRow(<<"T","o","t","a","l">>, <<>>, <<>>, <<>>, <<>>, <<>>, <<"6","0","0">>, <<"6","0","0">>) }

SalesPoolBytes == {encode_row(r) : r \in SalesPool}

QueryDates == {Date(2025, 1, 1), Date(2025, 1, 2), Date(2025, 1, 3)}

QueryClients == SUBSET {<<"A","N","A">>, <<"B","O">>}

QueryCategories == SUBSET {"Agua en Bolsa", "Hielo"}

QueryTipos == {None, Str(ty_SalesReceipt), Str(ty_Invoice)}

\* the state before line 139, but for the file
Start ==
    /\ item = <<>>
    /\ categoria = "unset"
    /\ tried = <<>>
    /\ csv = Unset
    /\ df = Unset
    /\ pc = "start"
    /\ query = Unset
    /\ df_filtered = Unset
    /\ metrics = Unset
    /\ shares_base = FALSE
    /\ view = Unset
    /\ par = Unset
    /\ session_state = NoSession
    /\ widgets = Unset
    /\ event = "none"

Init ==
    /\ file \in {FileOf(t) : t \in TablesUpTo(SalesPoolBytes, MaxRows)}
    /\ Start

InitLoad ==
    /\ file \in {FileOf(t) : t \in TablesUpTo(CleanPoolBytes, MaxRawRows)}
    /\ Start

\* line 139, and the branch of line 141 / 978
LoadData ==
    /\ pc = "start"
    /\ LET res == load_data_file(file)
       IN  /\ tried' = res.tried
           /\ csv' = res.csv
           /\ df' = res.df
    /\ pc' = IF df' = None THEN "error" ELSE "loaded"
    /\ UNCHANGED <<item, categoria, file, query, df_filtered, metrics,
                   shares_base, view, par, dateVars>>

\* lines 304-307
CalculateMetrics ==
    /\ pc = "loaded"
    /\ \E start_date \in QueryDates, end_date \in QueryDates,
          selected_clients \in QueryClients,
          selected_categories \in QueryCategories,
          tipo_venta \in QueryTipos :
          LET res == calculate_metrics(df, start_date, end_date, selected_clients,
                                       selected_categories, tipo_venta)
          IN  /\ query' = [ start_date          |-> start_date,
                            end_date            |-> end_date,
                            selected_clients    |-> selected_clients,
                            selected_categories |-> selected_categories,
                            tipo_venta          |-> tipo_venta ]
              /\ df_filtered' = res.df_filtered
              /\ metrics' = res.metrics
              /\ shares_base' = shares_data(df, res.df_filtered)
    /\ pc' = "rendered"
    /\ UNCHANGED <<catVars, loadVars, view, par, dateVars>>

\* a widget interaction reruns the script: load_data is cached (line 23),
\* the locals of the previous run are gone
Rerun ==
    /\ pc = "rendered"
    /\ pc' = "loaded"
    /\ query' = Unset
    /\ df_filtered' = Unset
    /\ metrics' = Unset
    /\ shares_base' = FALSE
    /\ view' = Unset
    /\ UNCHANGED <<catVars, loadVars, par, dateVars>>

Next == LoadData \/ CalculateMetrics \/ Rerun

Spec == Init /\ [][Next]_vars

NextLoad == LoadData

SpecLoad == InitLoad /\ [][NextLoad]_vars

(***************************************************************************)
(* Reading on its own: files of up to MaxFileRows rows whose Name cells     *)
(* hold bytes beyond ASCII, and the case of no file at all.                *)
(***************************************************************************)
MaxFileRows == 2

\* "ana"; "Pe\xF1a " and "\x8Akoda" as cp1252 writes them (n with tilde,
\* S caron); "Pe\xC3\xB1a" as UTF-8 writes it; "\x81x", a byte cp1252
\* leaves undefined
NameBytes ==
    { <<97, 110, 97>>,
      <<80, 101, 241, 97, 32>>,
      <<138, 107, 111, 100, 97>>,
      <<80, 101, 195, 177, 97>>,
      <<129, 120>> }

BytePool ==
    {[encode_row(BaseRow) EXCEPT !.Name = nm] : nm \in NameBytes}

FileMissing == [exists |-> FALSE, rows |-> <<>>]

InitRead ==
    /\ file \in {FileMissing}
                \cup {FileOf(t) : t \in TablesUpTo(BytePool, MaxFileRows)}
    /\ Start

NextRead == LoadData \/ CalculateMetrics \/ Rerun

SpecRead == InitRead /\ [][NextRead]_vars

(***************************************************************************)
(* The tabs: files of MaxKeys sales, each of its own product, customer     *)
(* and day (1 January 2025, a Wednesday, onwards); the Amount of the       *)
(* first MaxTied sales is either 200, a tie, or its own value; a credit    *)
(* memo for the first product may follow.  One run of the script is the    *)
(* calculate_metrics call followed by the code of the active tab.          *)
(***************************************************************************)
MaxKeys == 6

MaxTied == 3

MaxDateRows == 2

ItemWords ==
    << <<"A","g","u","a">>, <<"H","i","e","l","o">>,
       <<"B","o","t","e","l","l","o","n">>, <<"V","a","s","o">> >>

DigitChar(i) == CharOf(48 + i)

ViewRow(i, tied) ==
    CsvRow(IF i % 2 = 1 THEN ty_SalesReceipt ELSE ty_Invoice,
           <<"c", DigitChar(i)>>,
           ItemWords[((i - 1) % Len(ItemWords)) + 1] \o <<" ", DigitChar(i)>>,
           <<"0", DigitChar(i), "/", "0", "1", "/", "2", "0", "2", "5">>,
           <<"1">>,
           IF tied THEN <<"2","0","0">> ELSE <<DigitChar(i), "5", "0">>,
           IF tied THEN <<"2","0","0">> ELSE <<DigitChar(i), "5", "0">>,
           <<"0">>)

CreditMemoRow ==
    CsvRow(<<"C","r","e","d","i","t"," ","M","e","m","o">>, <<"c","2">>,
           <<"A","g","u","a"," ","1">>,
           <<"0","8","/","0","1","/","2","0","2","5">>,
           <<"1">>, <<"-","5","0",".","5">>, <<"-","5","0",".","5">>, <<"0">>)

ViewTables ==
    { [i \in 1..MaxKeys |-> encode_row(ViewRow(i, i \in tied))] \o extra :
          tied \in SUBSET (1..MaxTied),
          extra \in {<<>>, <<encode_row(CreditMemoRow)>>} }

ViewDates == {Date(2025, 1, 1), Date(2025, 1, 4), Date(2025, 1, 9)}

ViewClients == {{}, {<<"C","2">>}}

ViewCategories == {{}, {"Hielo"}}

InitViews ==
    /\ file \in {FileOf(t) : t \in ViewTables}
    /\ Start

\* lines 304-307 and the branch of the active tab, lines 481-815
Render ==
    /\ pc = "loaded"
    /\ \E start_date \in ViewDates, end_date \in ViewDates,
          selected_clients \in ViewClients,
          selected_categories \in ViewCategories,
          tipo_venta \in QueryTipos,
          tab \in Tabs, n \in SliderValues :
          LET res    == calculate_metrics(df, start_date, end_date, selected_clients,
                                          selected_categories, tipo_venta)
              rows   == res.df_filtered.rows
              groups == groupby_agg(rows, "Item")
          IN  \E top \in (IF tab = "Productos"
                          THEN orders_by_amount(groups, DOMAIN groups)
                          ELSE {<<>>}) :
                  /\ tab \in {"Productos", "Clientes"} \/ n = slider_min
                  /\ query' = [ start_date          |-> start_date,
                                end_date            |-> end_date,
                                selected_clients    |-> selected_clients,
                                selected_categories |-> selected_categories,
                                tipo_venta          |-> tipo_venta ]
                  /\ metrics' = res.metrics
                  /\ shares_base' = shares_data(df, res.df_filtered)
                  /\ df_filtered' = IF tab = "Tendencias"
                                    THEN set_day_of_month(res.df_filtered)
                                    ELSE res.df_filtered
                  /\ df' = IF tab = "Tendencias" /\ shares_base'
                           THEN set_day_of_month(df)
                           ELSE df
                  /\ view' = tab_view(tab, rows, n, top)
    /\ pc' = "rendered"
    /\ UNCHANGED <<catVars, file, tried, csv, par, dateVars>>

NextViews == LoadData \/ Render \/ Rerun

SpecViews == InitViews /\ [][NextViews]_vars

(***************************************************************************)
(* The date range of the sidebar, lines 149-224: one script run reads and  *)
(* writes st.session_state, renders the date_input and the buttons, and    *)
(* either reaches calculate_metrics or is cut short by st.rerun().         *)
(***************************************************************************)
\* lines 149-150
min_date(t) ==
    LET i == CHOOSE i \in 1..Len(t.rows) :
                 \A j \in 1..Len(t.rows) :
                     toordinal(t.rows[i].Date) <= toordinal(t.rows[j].Date)
    IN  Date(t.rows[i].Date.y, t.rows[i].Date.m, t.rows[i].Date.d)

max_date(t) ==
    LET i == CHOOSE i \in 1..Len(t.rows) :
                 \A j \in 1..Len(t.rows) :
                     toordinal(t.rows[i].Date) >= toordinal(t.rows[j].Date)
    IN  Date(t.rows[i].Date.y, t.rows[i].Date.m, t.rows[i].Date.d)

\* end_date_quick - pd.Timedelta(days=n): date.__sub__ adds -n days to the ordinal
minus_days(c, n) == fromordinal(toordinal(c) - n)

\* max(a, b) of two dates
later_date(a, b) == IF toordinal(b) > toordinal(a) THEN b ELSE a

\* lines 205, 211, 218 without max(min_date, ...)
quick_range_unclamped(lo, hi, days) == <<minus_days(hi, days), hi>>

\* lines 204-206, 210-212, 217-219
quick_range(lo, hi, days) == <<later_date(lo, minus_days(hi, days)), hi>>

\* pd.Timedelta(days=...) of each quick button, lines 205, 211, 218
days_last_month == 29

days_last_week == 6

days_last_3months == 89

quick_days(key) ==
    IF key = "last_month" THEN days_last_month
    ELSE IF key = "last_week" THEN days_last_week
    ELSE days_last_3months

\* lines 157-165: value= of the date_input
initial_value(ss, lo, hi) ==
    IF "date_range_reset" \in ss.keys /\ ss.date_range_reset THEN <<lo, hi>>
    ELSE IF "current_date_range" \in ss.keys THEN ss.current_date_range
    ELSE <<lo, hi>>

\* st.date_input raises when value lies outside [min_value, max_value]
value_in_bounds(value, lo, hi) ==
    /\ toordinal(lo) <= toordinal(value[1])
    /\ toordinal(value[Len(value)]) <= toordinal(hi)

\* lines 171-177.  The date_input has no key, so the element is identified
\* by its arguments: while value= is what it was in the last run the widget
\* returns what the user set in it, and with another value= it is a new
\* widget that returns value=, whatever the user did to the old one.
date_input(w, value, ev) ==
    IF w # Unset /\ w.value = value
    THEN IF ev.kind = "date_input" THEN ev.value ELSE w.state
    ELSE value

store(ss, key, val) ==
    IF key = "date_range_reset"
    THEN [ keys |-> ss.keys \cup {key}, date_range_reset |-> val,
           current_date_range |-> ss.current_date_range ]
    ELSE [ keys |-> ss.keys \cup {key}, date_range_reset |-> ss.date_range_reset,
           current_date_range |-> val ]

\* lines 149-224 of one run started by interaction ev
sidebar(ss, w, t, ev) ==
    LET lo         == min_date(t)
        hi         == max_date(t)
        value      == initial_value(ss, lo, hi)
        \* lines 153-159: the flag is created False, or read and cleared
        ss1        == store(ss, "date_range_reset", FALSE)
        date_range == date_input(w, value, ev)
        w1         == [k |-> "date_input", value |-> value, state |-> date_range]
        \* lines 187-192
        picked     == IF Len(date_range) = 2 THEN date_range
                      ELSE <<date_range[1], date_range[1]>>
        ss2        == store(ss1, "current_date_range", picked)
    IN  IF ~value_in_bounds(value, lo, hi)
        THEN [ session_state |-> ss1, widgets |-> w, exit |-> "exception",
               start_date |-> lo, end_date |-> hi ]
        ELSE IF ev.kind = "reset_dates"
        THEN \* lines 181-184
             [ session_state |-> store(store(ss1, "date_range_reset", TRUE),
                                       "current_date_range", <<lo, hi>>),
               widgets |-> w1, exit |-> "rerun",
               start_date |-> lo, end_date |-> hi ]
        ELSE IF ev.kind \in {"last_month", "last_week", "last_3months"}
        THEN \* lines 203-220
             [ session_state |-> store(ss2, "current_date_range",
                                       quick_range(lo, hi, quick_days(ev.kind))),
               widgets |-> w1, exit |-> "rerun",
               start_date |-> picked[1], end_date |-> picked[2] ]
        ELSE IF ev.kind = "all_period"
        THEN \* lines 222-224
             [ session_state |-> store(ss2, "current_date_range", <<lo, hi>>),
               widgets |-> w1, exit |-> "rerun",
               start_date |-> picked[1], end_date |-> picked[2] ]
        ELSE [ session_state |-> ss2, widgets |-> w1, exit |-> "done",
               start_date |-> picked[1], end_date |-> picked[2] ]

Event(kind) == [kind |-> kind, value |-> <<>>]

\* what the user can set in the calendar between min_value and max_value:
\* a start alone while the range is half chosen, or a start and an end
Picks(t) ==
    LET lo  == min_date(t)
        hi  == max_date(t)
        mid == fromordinal((toordinal(lo) + toordinal(hi)) \div 2)
        D   == {lo, mid, hi}
    IN  {<<a>> : a \in D}
        \cup {v \in D \X D : toordinal(v[1]) <= toordinal(v[2])}

\* one script run from line 141 on, over a table with rows (min() of an
\* empty column is NaT, and NaT has no date(): that run is not modelled)
Script(ev) ==
    /\ IsTable(df)
    /\ Len(df.rows) > 0
    /\ \E r \in {sidebar(session_state, widgets, df, ev)} :
           /\ session_state' = r.session_state
           /\ widgets' = r.widgets
           /\ event' = ev.kind
           /\ IF r.exit = "done"
              THEN LET res == calculate_metrics(df, r.start_date, r.end_date,
                                                {}, {}, None)
                   IN  /\ query' = [ start_date          |-> r.start_date,
                                     end_date            |-> r.end_date,
                                     selected_clients    |-> {},
                                     selected_categories |-> {},
                                     tipo_venta          |-> None ]
                       /\ df_filtered' = res.df_filtered
                       /\ metrics' = res.metrics
                       /\ shares_base' = shares_data(df, res.df_filtered)
                       /\ pc' = "rendered"
              ELSE /\ query' = Unset
                   /\ df_filtered' = Unset
                   /\ metrics' = Unset
                   /\ shares_base' = FALSE
                   /\ pc' = r.exit
    /\ view' = Unset
    /\ UNCHANGED <<catVars, loadVars, par>>

\* the first run, right after load_data
FirstRun == pc = "loaded" /\ Script(Event("none"))

\* the run st.rerun() asked for
RerunRequested == pc = "rerun" /\ Script(Event("none"))

\* a rerun started by another widget of the page
OtherWidget == pc = "rendered" /\ Script(Event("none"))

PickDates ==
    /\ pc = "rendered"
    /\ \E v \in Picks(df) : Script([kind |-> "date_input", value |-> v])

ClickReset == pc = "rendered" /\ Script(Event("reset_dates"))

ClickLastMonth == pc = "rendered" /\ Script(Event("last_month"))

ClickLastWeek == pc = "rendered" /\ Script(Event("last_week"))

ClickLast3Months == pc = "rendered" /\ Script(Event("last_3months"))

ClickAllPeriod == pc = "rendered" /\ Script(Event("all_period"))

\* day/month/year texts 4, 16, 20, 85, 101 and 105 days apart, on both sides
\* of the 6, 29 and 89 days of the quick buttons
SpanDateTexts ==
    { <<"3","1","/","1","2","/","2","0","2","4">>,
      <<"0","4","/","0","1","/","2","0","2","5">>,
      <<"2","0","/","0","1","/","2","0","2","5">>,
      <<"1","5","/","0","4","/","2","0","2","5">> }

DateRow(dt) ==
    CsvRow(ty_SalesReceipt, <<"A","N","A">>, <<"A","g","u","a">>, dt,
           <<"1">>, <<"5">>, <<"5">>, <<"0">>)

DatePoolBytes == {encode_row(DateRow(dt)) : dt \in SpanDateTexts}

\* files of one to MaxDateRows sales, in any order, no two on the same day
DateTables ==
    { t \in TablesUpTo(DatePoolBytes, MaxDateRows) :
          /\ Len(t) > 0
          /\ \A i \in 1..Len(t) : \A j \in 1..Len(t) : t[i] = t[j] => i = j }

InitDates ==
    /\ file \in {FileOf(t) : t \in DateTables}
    /\ Start

NextDates ==
    \/ LoadData
    \/ FirstRun
    \/ RerunRequested
    \/ OtherWidget
    \/ PickDates
    \/ ClickReset
    \/ ClickLastMonth
    \/ ClickLastWeek
    \/ ClickLast3Months
    \/ ClickAllPeriod

SpecDates == InitDates /\ [][NextDates]_vars

(***************************************************************************)
(* Queries side by side: each worker calls calculate_metrics on the one    *)
(* df and runs its statements one at a time, in any interleaving with the  *)
(* other worker.  par[w] holds the call's frame: its position, its         *)
(* arguments, its local df_filtered and its return value.                  *)
(***************************************************************************)
MaxParRows == 2

Workers == {1, 2}

ParQueries ==
    { [ start_date |-> Date(2025, 1, 1), end_date |-> Date(2025, 1, 3),
        selected_clients |-> {}, selected_categories |-> {}, tipo_venta |-> None ],
      [ start_date |-> Date(2025, 1, 1), end_date |-> Date(2025, 1, 2),
        selected_clients |-> {}, selected_categories |-> {},
        tipo_venta |-> Str(ty_SalesReceipt) ],
      [ start_date |-> Date(2025, 1, 2), end_date |-> Date(2025, 1, 3),
        selected_clients |-> {<<"B","O">>}, selected_categories |-> {},
        tipo_venta |-> None ],
      [ start_date |-> Date(2025, 1, 1), end_date |-> Date(2025, 1, 3),
        selected_clients |-> {}, selected_categories |-> {"Agua en Bolsa"},
        tipo_venta |-> Str(ty_Invoice) ] }

Idle == [at |-> "idle", args |-> Unset, df_filtered |-> Unset, result |-> Unset]

\* df_filtered as a name of the module: an assignment in one call is seen
\* by every call
store_frame_global(p, w, rows) ==
    [x \in Workers |-> [p[x] EXCEPT !.df_filtered = [rows |-> rows]]]

\* df_filtered = ... inside calculate_metrics binds a local of the call
store_frame(p, w, rows) ==
    [p EXCEPT ![w].df_filtered = [rows |-> rows]]

InitPar ==
    /\ file \in {FileOf(t) : t \in TablesUpTo(SalesPoolBytes, MaxParRows)}
    /\ Start

\* the par of the first call: the frames of the workers, all idle
Frames == IF par = Unset THEN [w \in Workers |-> Idle] ELSE par

\* line 97: the call
Call(w) ==
    /\ pc = "loaded"
    /\ Frames[w].at = "idle"
    /\ \E q \in ParQueries :
           par' = [Frames EXCEPT ![w].at = "l104", ![w].args = q]
    /\ UNCHANGED <<catVars, loadVars, runVars, dateVars>>

\* lines 104-107
FilterDate(w) ==
    /\ par # Unset
    /\ par[w].at = "l104"
    /\ par' = [store_frame(par, w,
                           filter_date(df.rows,
                                       to_datetime(par[w].args.start_date),
                                       to_datetime(par[w].args.end_date)))
                 EXCEPT ![w].at = "l110"]
    /\ UNCHANGED <<catVars, loadVars, runVars, dateVars>>

\* lines 110-111
FilterTipo(w) ==
    /\ par # Unset
    /\ par[w].at = "l110"
    /\ par' = [store_frame(par, w,
                           filter_tipo(par[w].df_filtered.rows,
                                       par[w].args.tipo_venta))
                 EXCEPT ![w].at = "l114"]
    /\ UNCHANGED <<catVars, loadVars, runVars, dateVars>>

\* lines 114-115
FilterClients(w) ==
    /\ par # Unset
    /\ par[w].at = "l114"
    /\ par' = [store_frame(par, w,
                           filter_clients(par[w].df_filtered.rows,
                                          par[w].args.selected_clients))
                 EXCEPT ![w].at = "l118"]
    /\ UNCHANGED <<catVars, loadVars, runVars, dateVars>>

\* lines 118-119
FilterCategories(w) ==
    /\ par # Unset
    /\ par[w].at = "l118"
    /\ par' = [store_frame(par, w,
                           filter_categories(par[w].df_filtered.rows,
                                             par[w].args.selected_categories))
                 EXCEPT ![w].at = "l122"]
    /\ UNCHANGED <<catVars, loadVars, runVars, dateVars>>

\* lines 122-136
ReturnMetrics(w) ==
    /\ par # Unset
    /\ par[w].at = "l122"
    /\ par' = [par EXCEPT
                 ![w].at = "done",
                 ![w].result =
                     [ df_filtered |-> [rows        |-> par[w].df_filtered.rows,
                                        object_cols |-> df.object_cols],
                       metrics     |-> metrics_of(par[w].df_filtered.rows) ]]
    /\ UNCHANGED <<catVars, loadVars, runVars, dateVars>>

NextPar ==
    \/ LoadData
    \/ \E w \in Workers : Call(w)
    \/ \E w \in Workers : FilterDate(w)
    \/ \E w \in Workers : FilterTipo(w)
    \/ \E w \in Workers : FilterClients(w)
    \/ \E w \in Workers : FilterCategories(w)
    \/ \E w \in Workers : ReturnMetrics(w)

SpecPar == InitPar /\ [][NextPar]_vars

(***************************************************************************)
(* Categorisation on its own: Item strings assembled from fragments that   *)
(* can spell every keyword, also across fragment boundaries and in upper   *)
(* case.                                                                   *)
(***************************************************************************)
ItemFragments ==
    { <<"A","g","u","a">>, <<"B","O","L","S","A">>, <<"h","i","e","l","o">>,
      <<"B","o","t","e">>, <<"l","l","o","n">>, <<"c","i","t","o">>,
      <<"i","m","p","u","e","s","t","o">>, <<"I","S","V">>,
      <<" ">>, <<"5","0","0","m","l">> }

RECURSIVE ItemsUpTo(_)
ItemsUpTo(n) ==
    IF n = 0 THEN {<<>>}
    ELSE ItemsUpTo(n - 1) \cup
         {f \o s : f \in ItemFragments, s \in ItemsUpTo(n - 1)}

InitCat ==
    /\ item \in ItemsUpTo(MaxFrags)
    /\ categoria = "unset"
    /\ file = FileOf(<<>>)
    /\ tried = <<>>
    /\ csv = Unset
    /\ df = Unset
    /\ pc = "start"
    /\ query = Unset
    /\ df_filtered = Unset
    /\ metrics = Unset
    /\ shares_base = FALSE
    /\ view = Unset
    /\ par = Unset
    /\ session_state = NoSession
    /\ widgets = Unset
    /\ event = "none"

Categorize ==
    /\ categoria = "unset"
    /\ categoria' = categorizar_producto(item)
    /\ UNCHANGED <<item, loadVars, runVars, par, dateVars>>

NextCat == Categorize

SpecCat == InitCat /\ [][NextCat]_vars

(***************************************************************************)
(* C1: the category is one of the six and is the first rule, in the order  *)
(* agua|bolsa, hielo, botellon, botecito|bote, impuesto|isv, that the      *)
(* lower-cased Item matches ("Otros" when none does); agua+hielo is        *)
(* "Agua en Bolsa" and botellon without agua/bolsa/hielo is "Botellones".  *)
(***************************************************************************)
HasKw(it, kws) == \E k \in kws : Contains(lower(it), k)

RuleKeywords ==
    << {kw_agua, kw_bolsa}, {kw_hielo}, {kw_botellon},
       {kw_botecito, kw_bote}, {kw_impuesto, kw_isv} >>

RuleLabels ==
    << "Agua en Bolsa", "Hielo", "Botellones", "Botecitos", "Impuestos" >>

CategoryByOrderedRule ==
    categoria # "unset" =>
        /\ categoria \in Categorias
        /\ \A r \in DOMAIN RuleKeywords :
               (categoria = RuleLabels[r]) <=>
                   /\ HasKw(item, RuleKeywords[r])
                   /\ \A q \in 1..(r - 1) : ~HasKw(item, RuleKeywords[q])
        /\ (categoria = "Otros") <=>
               \A r \in DOMAIN RuleKeywords : ~HasKw(item, RuleKeywords[r])
        /\ (HasKw(item, {kw_agua}) /\ HasKw(item, {kw_hielo}))
               => categoria = "Agua en Bolsa"
        /\ (HasKw(item, {kw_botellon}) /\ ~HasKw(item, {kw_agua, kw_bolsa, kw_hielo}))
               => categoria = "Botellones"

BotellonCategorized ==
    /\ categoria = "Botellones"
    /\ HasKw(item, {kw_botellon})
    /\ HasKw(item, {kw_bote})

(***************************************************************************)
(* Vocabulary of the claims about load_data                                *)
(***************************************************************************)
\* index labels of the records of a table
IndexSet(t) == {t.rows[i].index : i \in 1..Len(t.rows)}

\* the raw row at position i (index label i - 1) is in the cleaned table
Retained(i) == (i - 1) \in IndexSet(df)

RecordOf(i) == df.rows[CHOOSE j \in 1..Len(df.rows) : df.rows[j].index = i - 1]

DateParses(t) == ~IsNA(t) /\ strptime_dmy(t) # Null

NumberParses(t) == ~IsNA(t) /\ IsNumberText(t)

HasTotal(t) == Contains(t, <<"T","o","t","a","l">>)

\* every required field of a raw row is present and parses
RequiredFieldsValid(r) ==
    /\ ~IsNA(r.Type)
    /\ ~IsNA(r.Name)
    /\ ~IsNA(r.Item)
    /\ DateParses(r.Date)
    /\ NumberParses(r.Amount)

(***************************************************************************)
(* C2: every record of the table returned by load_data has non-null Type,  *)
(* Name, Item, Date and Amount.                                            *)
(***************************************************************************)
RequiredFieldsNonNull ==
    IsTable(df) =>
        \A i \in 1..Len(df.rows) :
            /\ df.rows[i].Type # Null
            /\ df.rows[i].Name # Null
            /\ df.rows[i].Item # Null
            /\ df.rows[i].Date # Null
            /\ df.rows[i].Amount # Null

SomeRowsDroppedSomeKept ==
    /\ IsTable(df)
    /\ Len(df.rows) = 1
    /\ Len(csv) = 2
    /\ \E i \in 1..Len(csv) : ~DateParses(csv[i].Date) /\ NumberParses(csv[i].Amount)

(***************************************************************************)
(* C3: a raw row whose Type contains 'Total' (case-sensitive) is never in  *)
(* the cleaned table, whatever its other fields; a row whose Type lacks    *)
(* 'Total' in that casing is not excluded on that account: it is retained  *)
(* when its required fields are valid.                                     *)
(***************************************************************************)
TotalRowsExcluded ==
    IsTable(df) =>
        \A i \in 1..Len(csv) :
            /\ HasTotal(csv[i].Type) => ~Retained(i)
            /\ (~HasTotal(csv[i].Type) /\ RequiredFieldsValid(csv[i])) => Retained(i)

TotalDroppedLowercaseKept ==
    /\ IsTable(df)
    /\ \E i, j \in 1..Len(csv) :
        /\ HasTotal(csv[i].Type)
        /\ RequiredFieldsValid(csv[i])
        /\ ~Retained(i)
        /\ Contains(lower(csv[j].Type), <<"t","o","t","a","l">>)
        /\ ~HasTotal(csv[j].Type)
        /\ Retained(j)

(***************************************************************************)
(* C4: a row whose Date or Amount does not parse is dropped; a row whose   *)
(* only unparseable fields are Qty, Sales Price or Balance is retained     *)
(* with those fields null; a malformed row never aborts the load and       *)
(* never changes whether another row is retained.                          *)
(***************************************************************************)
MalformedRowsHandledLocally ==
    df # Unset =>
        /\ df # None
        /\ \A i \in 1..Len(csv) :
            /\ (~DateParses(csv[i].Date) \/ ~NumberParses(csv[i].Amount))
                   => ~Retained(i)
            /\ (RequiredFieldsValid(csv[i]) /\ ~HasTotal(csv[i].Type))
                   => /\ Retained(i)
                      /\ ~NumberParses(csv[i].Qty) => RecordOf(i).Qty = Null
                      /\ ~NumberParses(csv[i].SalesPrice) => RecordOf(i).SalesPrice = Null
                      /\ ~NumberParses(csv[i].Balance) => RecordOf(i).Balance = Null
            /\ Retained(i) <=> IsTable(load_data(<<csv[i]>>))
                                  /\ Len(load_data(<<csv[i]>>).rows) = 1

(***************************************************************************)
(* C5: in the cleaned table Name equals its trimmed upper-case form and    *)
(* Item its trimmed form, and cleaning the cleaned table again returns     *)
(* the same table.                                                         *)
(***************************************************************************)
CleaningIdempotent ==
    IsTable(df) =>
        /\ \A i \in 1..Len(df.rows) :
            /\ df.rows[i].Name = Str(upper(strip(df.rows[i].Name.s)))
            /\ df.rows[i].Item = Str(strip(df.rows[i].Item.s))
        /\ clean_table(df) = df

UntidyNamesCleaned ==
    /\ IsTable(df)
    /\ \E i \in 1..Len(csv) :
        /\ Retained(i)
        /\ csv[i].Name # upper(csv[i].Name)
        /\ csv[i].Name # strip(csv[i].Name)
    /\ \E i \in 1..Len(csv) :
        /\ Retained(i)
        /\ csv[i].Item # strip(csv[i].Item)

(***************************************************************************)
(* Vocabulary of the claims about calculate_metrics                        *)
(***************************************************************************)
OnOrBefore(a, b) ==
    \/ a.y < b.y
    \/ a.y = b.y /\ a.m < b.m
    \/ a.y = b.y /\ a.m = b.m /\ a.d <= b.d

\* the four predicates of the filter specification held in query
DateOk(r) == OnOrBefore(query.start_date, r.Date) /\ OnOrBefore(r.Date, query.end_date)

TypeOk(r) == query.tipo_venta # None => r.Type = query.tipo_venta

ClientOk(r) == query.selected_clients # {} => r.Name.s \in query.selected_clients

CategoryOk(r) == query.selected_categories # {} => r.Categoria \in query.selected_categories

Matches(r) == DateOk(r) /\ TypeOk(r) /\ ClientOk(r) /\ CategoryOk(r)

RECURSIVE AmountTotal(_, _)
AmountTotal(rows, n) ==
    IF n = 0 THEN 0 ELSE AmountTotal(rows, n - 1) + rows[n].Amount.n

IsCash(r) == r.Type.s = <<"S","a","l","e","s"," ","R","e","c","e","i","p","t">>

IsCredit(r) == r.Type.s = <<"I","n","v","o","i","c","e">>

(***************************************************************************)
(* C6: the filtered records are exactly the records of the table that      *)
(* satisfy the date range (both ends inclusive), the type when given, the  *)
(* customers when non-empty and the categories when non-empty, whatever    *)
(* the order the four predicates are applied in; records of 1, 2, 3 Jan    *)
(* 2025 with Amounts 100, 200, 300 and range [1 Jan, 2 Jan] give total     *)
(* sales 300 and 2 transactions.                                           *)
(***************************************************************************)
FilteredIsConjunction ==
    pc = "rendered" =>
        /\ df_filtered.rows = SelectSeq(df.rows, Matches)
        /\ df_filtered.rows =
               SelectSeq(SelectSeq(SelectSeq(SelectSeq(df.rows, CategoryOk),
                                             ClientOk), TypeOk), DateOk)
        /\ df_filtered.rows =
               SelectSeq(SelectSeq(SelectSeq(SelectSeq(df.rows, ClientOk),
                                             DateOk), CategoryOk), TypeOk)
        /\ ( /\ Len(df.rows) = 3
             /\ \A i \in 1..3 : /\ df.rows[i].Date = Date(2025, 1, i)
                                /\ df.rows[i].Amount = Num(10000 * i)
             /\ query.start_date = Date(2025, 1, 1)
             /\ query.end_date = Date(2025, 1, 2)
             /\ query.tipo_venta = None
             /\ query.selected_clients = {}
             /\ query.selected_categories = {} )
           => /\ metrics.total_ventas = 30000
              /\ metrics.total_transacciones = 2

ThreeDayExample ==
    /\ pc = "rendered"
    /\ Len(df.rows) = 3
    /\ \A i \in 1..3 : /\ df.rows[i].Date = Date(2025, 1, i)
                       /\ df.rows[i].Amount = Num(10000 * i)
    /\ query.start_date = Date(2025, 1, 1)
    /\ query.end_date = Date(2025, 1, 2)
    /\ query.tipo_venta = None
    /\ query.selected_clients = {}
    /\ query.selected_categories = {}
    /\ Len(df_filtered.rows) = 2

(***************************************************************************)
(* C7: the transaction count equals the number of filtered records         *)
(* returned with it, and total sales the sum of Amount over them.          *)
(***************************************************************************)
TotalsMatchFiltered ==
    pc = "rendered" =>
        /\ metrics.total_transacciones = Len(df_filtered.rows)
        /\ metrics.total_ventas = AmountTotal(df_filtered.rows, Len(df_filtered.rows))

SeveralRecordsTotalled ==
    /\ pc = "rendered"
    /\ Len(df_filtered.rows) >= 2
    /\ Len(df_filtered.rows) < Len(df.rows)
    /\ metrics.total_ventas # 0

(***************************************************************************)
(* C8: the average ticket is total sales divided by the transaction count  *)
(* when the count is positive, and 0 (not NaN) when the count is 0.        *)
(***************************************************************************)
AverageTicketDefined ==
    pc = "rendered" =>
        /\ metrics.ticket_promedio # NaN
        /\ IF metrics.total_transacciones > 0
           THEN /\ metrics.ticket_promedio.den > 0
                /\ metrics.ticket_promedio.num * metrics.total_transacciones
                       = metrics.total_ventas * metrics.ticket_promedio.den
           ELSE metrics.ticket_promedio = Zero

AverageOverSameDay ==
    /\ pc = "rendered"
    /\ metrics.total_transacciones = 2
    /\ metrics.dias_con_ventas = 1
    /\ metrics.total_ventas < 0
    /\ metrics.ticket_promedio.num < 0

(***************************************************************************)
(* C9: with the type filter unset, the cash subtotal and count are the     *)
(* sum and number of filtered records of Type 'Sales Receipt', the credit  *)
(* subtotal and count those of Type 'Invoice', each 0 when the type is     *)
(* absent from the filtered records.                                       *)
(***************************************************************************)
SplitByTypeWhenUnset ==
    (pc = "rendered" /\ query.tipo_venta = None) =>
        LET cash   == SelectSeq(df_filtered.rows, IsCash)
            credit == SelectSeq(df_filtered.rows, IsCredit)
        IN  /\ metrics.venta_contado = AmountTotal(cash, Len(cash))
            /\ metrics.transacciones_contado = Len(cash)
            /\ metrics.venta_credito = AmountTotal(credit, Len(credit))
            /\ metrics.transacciones_credito = Len(credit)
            /\ cash = <<>> => /\ metrics.venta_contado = 0
                              /\ metrics.transacciones_contado = 0
            /\ credit = <<>> => /\ metrics.venta_credito = 0
                                /\ metrics.transacciones_credito = 0

CashCreditAndOtherSplit ==
    /\ pc = "rendered"
    /\ query.tipo_venta = None
    /\ metrics.transacciones_contado = 1
    /\ metrics.transacciones_credito = 1
    /\ metrics.total_transacciones = 3
    /\ metrics.venta_contado # metrics.venta_credito

(***************************************************************************)
(* C10: a query that matches no record of the table returns an empty       *)
(* record set and zero-valued metrics instead of failing.                  *)
(***************************************************************************)
EmptyResultIsZero ==
    (pc = "rendered" /\ \A i \in 1..Len(df.rows) : ~Matches(df.rows[i])) =>
        /\ df_filtered.rows = <<>>
        /\ metrics = [ total_ventas          |-> 0,
                       total_transacciones   |-> 0,
                       ticket_promedio       |-> Zero,
                       clientes_unicos       |-> 0,
                       productos_unicos      |-> 0,
                       dias_con_ventas       |-> 0,
                       venta_contado         |-> 0,
                       venta_credito         |-> 0,
                       transacciones_contado |-> 0,
                       transacciones_credito |-> 0 ]

NoMatchOnPopulatedTable ==
    /\ pc = "rendered"
    /\ Len(df.rows) = 3
    /\ \A i \in 1..Len(df.rows) : ~Matches(df.rows[i])
    /\ df_filtered.rows = <<>>

(***************************************************************************)
(* C11: the load step tries the encodings in the order utf-8, latin-1,     *)
(* iso-8859-1, cp1252, up to and including the first that decodes the      *)
(* file; the ones tried before it do not decode it, none is tried after    *)
(* it, and the rows cleaned are the rows of that parse.                    *)
(***************************************************************************)
CandidateOrder == <<"utf-8", "latin-1", "iso-8859-1", "cp1252">>

FirstDecodingUsed ==
    [][(pc = "start" /\ file.exists) =>
          \E n \in 1..Len(CandidateOrder) :
              /\ tried' = SubSeq(CandidateOrder, 1, n)
              /\ decodes(file.rows, CandidateOrder[n])
              /\ \A k \in 1..(n - 1) : ~decodes(file.rows, CandidateOrder[k])
              /\ csv' = decode_rows(file.rows, CandidateOrder[n])
              /\ df' = load_data(csv')]_vars

\* a file that is not UTF-8: the second encoding is tried and used
FellBackToLatin1 ==
    /\ IsTable(df)
    /\ tried = <<"utf-8", "latin-1">>
    /\ Len(df.rows) = 2

(***************************************************************************)
(* C12: a file written in cp1252 (one that cp1252 decodes and UTF-8 does   *)
(* not) loads, and every name of the cleaned table is the cp1252 text of   *)
(* its cell, stripped and upper-cased.                                     *)
(***************************************************************************)
WrittenInCp1252 ==
    /\ file.exists
    /\ decodes(file.rows, "cp1252")
    /\ ~decodes(file.rows, "utf-8")

Cp1252Name(i) == upper(strip(cp1252_decode(file.rows[i].Name).text))

Cp1252NamesDecoded ==
    (df # Unset /\ WrittenInCp1252) =>
        /\ IsTable(df)
        /\ \A i \in 1..Len(df.rows) :
               df.rows[i].Name = Str(Cp1252Name(df.rows[i].index + 1))

(***************************************************************************)
(* C13: when the file does not exist, or no encoding of the list decodes   *)
(* it, load_data returns None and no rows, the script is in its error      *)
(* branch, and no query has run or ever runs.                              *)
(***************************************************************************)
Unreadable ==
    \/ ~file.exists
    \/ \A n \in 1..Len(encodings) : ~decodes(file.rows, encodings[n])

LoadFailureIsFatal ==
    (df # Unset /\ Unreadable) =>
        /\ df = None
        /\ csv = Unset
        /\ pc = "error"
        /\ query = Unset
        /\ df_filtered = Unset
        /\ metrics = Unset

MissingFileBlocked ==
    /\ ~file.exists
    /\ tried = <<"utf-8">>
    /\ df = None
    /\ pc = "error"

(***************************************************************************)
(* C14: when every raw row is a summary row or lacks a required field,     *)
(* load_data returns a table with no rows, and the script is not in its    *)
(* error branch.                                                           *)
(***************************************************************************)
NothingSurvives ==
    \A i \in 1..Len(csv) :
        HasTotal(csv[i].Type) \/ ~RequiredFieldsValid(csv[i])

ZeroRowsIsEmptyDataset ==
    (df # Unset /\ file.exists /\ NothingSurvives) =>
        /\ IsTable(df)
        /\ Len(df.rows) = 0
        /\ pc # "error"

(***************************************************************************)
(* C15: once load_data has returned, no step changes df: not a query, not  *)
(* a tab's breakdowns, not the heat map's Day_of_Month column.             *)
(***************************************************************************)
BaseTableNeverMutated == [][df # Unset => df' = df]_vars

\* the heat map's column was added to a df_filtered that holds every record
DayOfMonthAddedToFiltered ==
    /\ IsTable(df)
    /\ view # Unset
    /\ view.tab = "Tendencias"
    /\ Len(df_filtered.rows) = Len(df.rows)
    /\ Len(df.rows) > 0
    /\ "Day_of_Month" \in DOMAIN df_filtered.rows[1]
    /\ "Day_of_Month" \notin DOMAIN df.rows[1]

(***************************************************************************)
(* Vocabulary of the claims about the breakdowns                           *)
(***************************************************************************)
\* the value of the grouping dimension in a filtered record
KeyIn(r, by) == IF by \in {"Item", "Name"} THEN r[by].s ELSE r[by]

FilteredKeys(by) ==
    {KeyIn(df_filtered.rows[i], by) : i \in 1..Len(df_filtered.rows)}

RecordsOfKey(by, k) ==
    {i \in 1..Len(df_filtered.rows) : KeyIn(df_filtered.rows[i], by) = k}

RECURSIVE AmountOver(_)
AmountOver(is) ==
    IF is = {} THEN 0
    ELSE LET i == CHOOSE x \in is : TRUE
         IN  df_filtered.rows[i].Amount.n + AmountOver(is \ {i})

\* the sum of a column of a breakdown over its first n rows
RECURSIVE ColumnTotal(_, _, _)
ColumnTotal(b, c, n) ==
    IF n = 0 THEN 0 ELSE ColumnTotal(b, c, n - 1) + b[n][c]

BreakdownKeys(b) == {b[i].key : i \in 1..Len(b)}

(***************************************************************************)
(* C17: a top-N breakdown by Item or by Name has min(N, number of distinct *)
(* keys) rows, each a distinct key of the filtered records with the sum of *)
(* its Amounts, in descending order of that sum, and no omitted key has a  *)
(* greater sum than a listed one.                                          *)
(***************************************************************************)
IsTopN(top, by, n) ==
    /\ Len(top) = Min({n, Cardinality(FilteredKeys(by))})
    /\ \A i \in 1..Len(top) :
           /\ top[i].key \in FilteredKeys(by)
           /\ top[i].Amount = AmountOver(RecordsOfKey(by, top[i].key))
           /\ \A j \in 1..Len(top) : top[j].key = top[i].key => j = i
           /\ \A j \in (i + 1)..Len(top) : top[i].Amount >= top[j].Amount
           /\ \A k \in FilteredKeys(by) \ BreakdownKeys(top) :
                  top[i].Amount >= AmountOver(RecordsOfKey(by, k))

MondayFirst(b) ==
    \A i \in 1..Len(b) : \A j \in (i + 1)..Len(b) :
        IndexIn(DayNames, b[i].key) < IndexIn(DayNames, b[j].key)

WeekdaysMondayFirst ==
    view # Unset =>
        /\ view.tab = "Tendencias" =>
               MondayFirst(view.ventas_weekday) /\ MondayFirst(view.heatmap_pivot)
        /\ view.tab = "Dashboard" => MondayFirst(view.ventas_weekday)

(***************************************************************************)
(* C19: in every breakdown by Item, Name, Categoria, Weekday or Date, each *)
(* filtered record is in exactly one group, each group counts exactly the  *)
(* records of its key, and the groups' sums and counts add up to           *)
(* total_ventas and total_transacciones.                                   *)
(***************************************************************************)
IsPartition(b, by) ==
    /\ \A i \in 1..Len(df_filtered.rows) :
           Cardinality({g \in 1..Len(b) :
                           b[g].key = KeyIn(df_filtered.rows[i], by)}) = 1
    /\ \A g \in 1..Len(b) :
           /\ b[g].count = Cardinality(RecordsOfKey(by, b[g].key))
           /\ b[g].count > 0
           /\ b[g].Amount = AmountOver(RecordsOfKey(by, b[g].key))
    /\ ColumnTotal(b, "Amount", Len(b)) = metrics.total_ventas
    /\ ColumnTotal(b, "count", Len(b)) = metrics.total_transacciones

QueriesIndependent ==
    par # Unset =>
        \A w \in Workers :
            par[w].at = "done" =>
                par[w].result =
                    calculate_metrics(df, par[w].args.start_date,
                                      par[w].args.end_date,
                                      par[w].args.selected_clients,
                                      par[w].args.selected_categories,
                                      par[w].args.tipo_venta)

\* two queries with different arguments and different results, both done
TwoDifferentQueriesDone ==
    /\ par # Unset
    /\ par[1].at = "done"
    /\ par[2].at = "done"
    /\ par[1].args # par[2].args
    /\ Len(par[1].result.df_filtered.rows) = 2
    /\ Len(par[2].result.df_filtered.rows) = 1

(***************************************************************************)
(* C20: the cash and credit counts add up to at most the transaction       *)
(* count; they add up to it, and the cash and credit subtotals to the      *)
(* total, exactly when every filtered record is a Sales Receipt or an      *)
(* Invoice; under a type filter for one of the two, the other's subtotal   *)
(* and count are 0 and the selected one's equal the totals.                *)
(***************************************************************************)
AllCashOrCredit ==
    \A i \in 1..Len(df_filtered.rows) :
        IsCash(df_filtered.rows[i]) \/ IsCredit(df_filtered.rows[i])

CountsAddUp ==
    metrics.transacciones_contado + metrics.transacciones_credito
        = metrics.total_transacciones

SubtotalsAddUp ==
    metrics.venta_contado + metrics.venta_credito = metrics.total_ventas

CashCreditWithinTotals ==
    pc = "rendered" =>
        /\ metrics.transacciones_contado + metrics.transacciones_credito
               <= metrics.total_transacciones
        /\ CountsAddUp <=> AllCashOrCredit
        /\ (CountsAddUp /\ SubtotalsAddUp) <=> AllCashOrCredit
        /\ query.tipo_venta = Str(<<"S","a","l","e","s"," ","R","e","c","e","i","p","t">>) =>
               /\ metrics.venta_credito = 0
               /\ metrics.transacciones_credito = 0
               /\ metrics.venta_contado = metrics.total_ventas
               /\ metrics.transacciones_contado = metrics.total_transacciones
        /\ query.tipo_venta = Str(<<"I","n","v","o","i","c","e">>) =>
               /\ metrics.venta_contado = 0
               /\ metrics.transacciones_contado = 0
               /\ metrics.venta_credito = metrics.total_ventas
               /\ metrics.transacciones_credito = metrics.total_transacciones

\* a table with receipts and a credit memo, filtered to its two invoices
InvoiceFilterOverMixedTable ==
    /\ pc = "rendered"
    /\ query.tipo_venta = Str(<<"I","n","v","o","i","c","e">>)
    /\ Len(df.rows) = 3
    /\ \E i \in 1..3 : IsCash(df.rows[i])
    /\ metrics.transacciones_credito = 2
    /\ metrics.venta_credito = 40000

(***************************************************************************)
(* C21: the persisted date range                                           *)
(***************************************************************************)
DataOrdinals == {toordinal(df.rows[i].Date) : i \in 1..Len(df.rows)}

FirstDay == Min(DataOrdinals)

LastDay == Max(DataOrdinals)

PersistedRange == session_state.current_date_range

RangeIs(from, to) ==
    /\ "current_date_range" \in session_state.keys
    /\ Len(PersistedRange) = 2
    /\ toordinal(PersistedRange[1]) = from
    /\ toordinal(PersistedRange[2]) = to

RangeWithinData ==
    "current_date_range" \in session_state.keys =>
        /\ Len(PersistedRange) = 2
        /\ FirstDay <= toordinal(PersistedRange[1])
        /\ toordinal(PersistedRange[1]) <= toordinal(PersistedRange[2])
        /\ toordinal(PersistedRange[2]) <= LastDay

\* the last n days of the data, or all of it when it spans fewer
LastDays(n) == RangeIs(Max({FirstDay, LastDay - (n - 1)}), LastDay)

WholePeriod == RangeIs(FirstDay, LastDay)

ButtonRange(key) ==
    IF key = "last_week" THEN LastDays(7)
    ELSE IF key = "last_month" THEN LastDays(30)
    ELSE IF key = "last_3months" THEN LastDays(90)
    ELSE WholePeriod

RangeButtons == {"reset_dates", "last_week", "last_month", "last_3months", "all_period"}

\* C21: over a table with rows, after every script run the persisted
\* current_date_range is a pair with min_date <= start <= end <= max_date;
\* the run in which a button is clicked leaves it at the last 7, 30 or 90
\* days of the data cut at min_date (quick buttons) or at (min_date,
\* max_date) (reset, all period), the run st.rerun() then starts keeps that
\* range, and that run ends with date_range_reset False.
DateRangeStaysValid ==
    [][ (IsTable(df) /\ session_state' # session_state) =>
            /\ RangeWithinData'
            /\ \A key \in RangeButtons : event' = key => ButtonRange(key)'
            /\ \A key \in RangeButtons : (pc = "rerun" /\ event = key) =>
                    /\ ButtonRange(key)'
                    /\ "date_range_reset" \in session_state'.keys
                    /\ ~session_state'.date_range_reset
                    /\ pc' = "rendered" ]_vars

\* "last 7 days" was clicked over data that spans fewer than 7 days and
\* more than one, after the user had narrowed the range to the last day
LastWeekCutAtMinDate ==
    /\ event = "last_week"
    /\ pc = "rerun"
    /\ LastDay - FirstDay \in 1..5
    /\ widgets.state = <<max_date(df), max_date(df)>>
    /\ WholePeriod

====
